---------------------------- MODULE Spec2Model ----------------------------
(***************************************************************************)
(* Sales-and-inventory server: the route handlers of src/server/routes.ts  *)
(* as a state machine.  Every handler is an async function; it runs        *)
(* atomically between two awaits, so each handler is split into one action *)
(* per await-delimited step and Procs is the set of requests that may be   *)
(* in flight at once.  The storage adapter (./storage.js) is not part of   *)
(* the sources; its operations are modelled after the specification's      *)
(* description of the persistence adapter.                                 *)
(***************************************************************************)
EXTENDS Integers, Sequences, FiniteSets, TLC

VARIABLES
    products,   \* products collection: internal id -> product document
    users,      \* users collection: the user documents, in insertion order
    sessions,   \* sessions collection: session id -> user id
    sessionSeq, \* number of sessions created so far (source of fresh session ids)
    now,        \* wall clock, in milliseconds (Date.now())
    streak,     \* history: per user, failed logins since the last success (up to 5)
    lockMs,     \* history: per user, durations of the lockouts since the last success
    isConnected,   \* index.ts: let isConnected
    frontendReady, \* index.ts: let frontendReady
    connects,      \* history: number of mongoose.connect calls started
    failures,      \* history: number of mongoose.connect calls that failed
    req         \* per request slot: the handler's locals and its response

vars == <<products, users, sessions, sessionSeq, now, streak, lockMs,
          isConnected, frontendReady, connects, failures, req>>

(***************************************************************************)
(* Bounds of the model                                                     *)
(***************************************************************************)
\* Longest items array of a sale request.
MaxItems == 2
\* Requests with a negative quantity are only issued while stock is below this.
MaxQty == 4
\* Largest quantity a request asks for.
MaxReqQty == 3

\* No further mongoose.connect call is started after this many.
MaxConnects == 3

\* No login is started for a user with this many counted failed attempts.
MaxAttempts == 4
\* No login is started once this many sessions have been created.
MaxSessions == 2
\* The clock advances at most this many times.
MaxTicks == 2

\* Request slots.  The serial slot takes one request after another; each
\* racer takes a single request, and racers interleave in every order.
Serial == {"s1"}
Racers == {"r1", "r2"}
Procs == Serial \cup Racers

\* Quantities a client may send: negative, zero, and up to MaxReqQty.
Qtys == {-1, 0} \cup {q \in 2..MaxReqQty : TRUE}

\* Ids a client may send: manual ids, an internal id, and an id of no product.
ReqIds == {"P001", "P002", "o2", "P404"}

NoProduct == [id |-> "none"]

\* The stock the store starts with.
InitProducts ==
    [o \in {"o1", "o2"} |->
        IF o = "o1"
        THEN [id |-> "o1", manualId |-> "P001", name |-> "Pen", price |-> 5, quantity |-> 3]
        ELSE [id |-> "o2", manualId |-> "P002", name |-> "Ink", price |-> 3, quantity |-> 2]]

Idle == [op |-> "none", pc |-> "idle", status |-> 0]

(***************************************************************************)
(* Storage adapter: products                                               *)
(***************************************************************************)
\* storage.getProductByManualId(id): the product with that manual id, or null.
getProductByManualId(ps, id) ==
    IF \E o \in DOMAIN ps : ps[o].manualId = id
    THEN ps[CHOOSE o \in DOMAIN ps : ps[o].manualId = id]
    ELSE NoProduct

\* storage.getProduct(id): the product with that internal id, or null.
getProduct(ps, id) ==
    IF id \in DOMAIN ps THEN ps[id] ELSE NoProduct

\* storage.deductProductStock(id, quantity): atomic conditional decrement,
\* applied only if the current quantity is at least the requested one.
deductProductStock(ps, id, quantity) ==
    IF id \in DOMAIN ps /\ ps[id].quantity >= quantity
    THEN [ps EXCEPT ![id].quantity = @ - quantity]
    ELSE ps

\* (await getProductByManualId(id)) || (await getProduct(id))
resolveProduct(ps, id) ==
    IF getProductByManualId(ps, id) # NoProduct
    THEN getProductByManualId(ps, id)
    ELSE getProduct(ps, id)

\* Mutant: the check rejects a request for exactly the stock on hand.
insufficientStock_OffByOne(product, quantity) == product.quantity <= quantity

\* product.quantity < quantity (lines 176 and 207)
insufficientStock(product, quantity) == product.quantity < quantity

\* Mutant: the line total forgets the quantity.
lineTotal_PriceOnly(product, item) == product.price

\* product.price * item.quantity (lines 213 and 219)
lineTotal(product, item) == product.price * item.quantity

\* A handler may start in a slot that holds no request in flight.
Free(p) == req[p].pc = "idle" \/ (req[p].pc \in {"done", "aborted"} /\ p \in Serial)

\* Negative quantities raise the stock; they are issued only below MaxQty.
StockBelowCap == \A o \in DOMAIN products : products[o].quantity < MaxQty

(***************************************************************************)
(* POST /api/products/:id/deduct                                           *)
(***************************************************************************)
\* Lines 168-177: read the body, resolve the product, check the stock.
DeductLookup(p) ==
    /\ Free(p)
    /\ \E id \in ReqIds, quantity \in Qtys :
         /\ quantity < 0 => StockBelowCap
         /\ LET product == resolveProduct(products, id)
                base == [op |-> "deduct", id |-> id, quantity |-> quantity,
                         product |-> product, pre |-> products]
            IN req' = [req EXCEPT ![p] =
                 IF product = NoProduct
                 THEN base @@ [pc |-> "done", status |-> 404,
                               body |-> [message |-> "Product not found"]]
                 ELSE IF insufficientStock(product, quantity)
                 THEN base @@ [pc |-> "done", status |-> 400,
                               body |-> [message |-> "Insufficient stock"]]
                 ELSE base @@ [pc |-> "deduct_write", status |-> 0]]
    /\ UNCHANGED <<products, users, sessions, sessionSeq, now, streak, lockMs,
                 isConnected, frontendReady, connects, failures>>

\* Line 179: await storage.deductProductStock(product.id, quantity).
DeductWrite(p) ==
    /\ req[p].pc = "deduct_write"
    /\ products' = deductProductStock(products, req[p].product.id, req[p].quantity)
    /\ req' = [req EXCEPT ![p].pc = "deduct_respond"]
    /\ UNCHANGED <<users, sessions, sessionSeq, now, streak, lockMs,
                 isConnected, frontendReady, connects, failures>>

\* Lines 180-185: re-read the product and answer 200 with it.
DeductRespond(p) ==
    /\ req[p].pc = "deduct_respond"
    /\ req' = [req EXCEPT ![p] =
         [q \in DOMAIN req[p] \ {"pc", "status"} |-> req[p][q]] @@
         [pc |-> "done", status |-> 200,
          body |-> [message |-> <<"Deducted", req[p].quantity, "item(s)">>,
                    product |-> getProduct(products, req[p].product.id)]]]
    /\ UNCHANGED <<products, users, sessions, sessionSeq, now, streak, lockMs,
                 isConnected, frontendReady, connects, failures>>

(***************************************************************************)
(* POST /api/sales                                                         *)
(***************************************************************************)
\* Items a client may put in a sale: the two largest quantities of a stocked
\* product, or a product that does not exist.
SaleItem ==
    [id : {"P001", "P002"}, quantity : {MaxReqQty - 1, MaxReqQty}]
        \cup {[id |-> "P404", quantity |-> MaxReqQty]}

\* The items arrays a client may send (an empty one included).
ItemLists == UNION {[1..n -> SaleItem] : n \in 0..MaxItems}

\* !Array.isArray(items) || items.length === 0 (line 194)
noSaleItems(isArray, items) == ~isArray \/ Len(items) = 0

\* Mutant: an empty items array is not rejected; the loop runs over nothing
\* and the sale is answered 200 with a total of 0.
SaleStart_NoEmptyCheck(p) ==
    /\ Free(p)
    /\ \E isArray \in BOOLEAN :
       \E items \in (IF isArray THEN ItemLists ELSE {<<>>}) :
         /\ LET base == [op |-> "sale", isArray |-> isArray, items |-> items, idx |-> 1,
                         product |-> NoProduct, totalAmount |-> 0,
                         saleRecords |-> <<>>, pre |-> products]
            IN req' = [req EXCEPT ![p] =
                 IF ~isArray
                 THEN base @@ [pc |-> "done", status |-> 400,
                               body |-> [message |-> "No sale items provided"]]
                 ELSE IF Len(items) = 0
                 THEN base @@ [pc |-> "done", status |-> 200,
                               body |-> [message |-> "Transaction completed.",
                                         totalAmount |-> 0, saleRecords |-> <<>>]]
                 ELSE base @@ [pc |-> "sale_lookup", status |-> 0]]
    /\ UNCHANGED <<products, users, sessions, sessionSeq, now, streak, lockMs,
                 isConnected, frontendReady, connects, failures>>

\* Lines 193-198: read the body, reject items that are no array or empty.
SaleStart(p) ==
    /\ Free(p)
    /\ \E isArray \in BOOLEAN :
       \E items \in (IF isArray THEN ItemLists ELSE {<<>>}) :
         /\ LET base == [op |-> "sale", isArray |-> isArray, items |-> items, idx |-> 1,
                         product |-> NoProduct, totalAmount |-> 0,
                         saleRecords |-> <<>>, pre |-> products]
            IN req' = [req EXCEPT ![p] =
                 IF noSaleItems(isArray, items)
                 THEN base @@ [pc |-> "done", status |-> 400,
                               body |-> [message |-> "No sale items provided"]]
                 ELSE base @@ [pc |-> "sale_lookup", status |-> 0]]
    /\ UNCHANGED <<products, users, sessions, sessionSeq, now, streak, lockMs,
                 isConnected, frontendReady, connects, failures>>

\* Lines 200-210: resolve the current item's product and check its stock.
SaleLookup(p) ==
    /\ req[p].pc = "sale_lookup"
    /\ LET item == req[p].items[req[p].idx]
           product == resolveProduct(products, item.id)
       IN req' = [req EXCEPT ![p] =
            IF product = NoProduct
            THEN [q \in DOMAIN req[p] \ {"pc", "status"} |-> req[p][q]] @@
                 [pc |-> "done", status |-> 404,
                  body |-> [message |-> <<"Product not found:", item.id>>]]
            ELSE IF insufficientStock(product, item.quantity)
            THEN [q \in DOMAIN req[p] \ {"pc", "status"} |-> req[p][q]] @@
                 [pc |-> "done", status |-> 400,
                  body |-> [message |-> <<"Insufficient stock for", product.name>>]]
            ELSE [req[p] EXCEPT !.pc = "sale_write", !.product = product]]
    /\ UNCHANGED <<products, users, sessions, sessionSeq, now, streak, lockMs,
                 isConnected, frontendReady, connects, failures>>

\* Lines 212-227: deduct the item, add its line, go on or answer 200.
SaleWrite(p) ==
    /\ req[p].pc = "sale_write"
    /\ LET item == req[p].items[req[p].idx]
           product == req[p].product
           total == req[p].totalAmount + lineTotal(product, item)
           records == Append(req[p].saleRecords,
                        [productId |-> product.id, productName |-> product.name,
                         quantitySold |-> item.quantity,
                         totalPrice |-> lineTotal(product, item)])
           next == [req[p] EXCEPT !.totalAmount = total, !.saleRecords = records,
                                  !.idx = @ + 1]
       IN /\ products' = deductProductStock(products, product.id, item.quantity)
          /\ req' = [req EXCEPT ![p] =
               IF req[p].idx < Len(req[p].items)
               THEN [next EXCEPT !.pc = "sale_lookup"]
               ELSE [q \in DOMAIN next \ {"pc", "status"} |-> next[q]] @@
                    [pc |-> "done", status |-> 200,
                     body |-> [message |-> "Transaction completed.",
                               totalAmount |-> total, saleRecords |-> records]]]
    /\ UNCHANGED <<users, sessions, sessionSeq, now, streak, lockMs,
                 isConnected, frontendReady, connects, failures>>

(***************************************************************************)
(* Accounts: users, passwords, sessions                                    *)
(***************************************************************************)
\* null, and a value v that is set: <<v>>.
Null == <<>>

NoUser == [id |-> "none"]

Usernames == {"alice", "bob"}

\* Passwords a client may send; the empty one fails schema validation.
Passwords == {"good", "bad", ""}

Roles == {"staff"}

\* Failed attempts already counted at which a further failure locks (line 54).
LockThreshold == 2

\* 5 * 60 * 1000 ms (line 55).
CooldownMs == 300000

\* One step of the clock: 150 s.
TickMs == 150 * 1000

\* bcrypt.hash / bcrypt.compare
bcryptHash(password) == <<"bcrypt", password>>
bcryptCompare(password, hash) == hash = bcryptHash(password)

NewUser(id, username, password, role) ==
    [id |-> id, username |-> username,
     password |-> bcryptHash(password), role |-> role,
     loginAttempts |-> 0, cooldownUntil |-> Null]

\* The store starts with one registered staff account.
InitUsers == <<NewUser(<<"uid", 1>>, "alice", "good", "staff")>>

\* Position of the first document of the collection with that username, or 0.
UserIndex(us, username) ==
    IF \E i \in 1..Len(us) : us[i].username = username
    THEN CHOOSE i \in 1..Len(us) :
           /\ us[i].username = username
           /\ \A j \in 1..(i - 1) : us[j].username # username
    ELSE 0

\* storage.getUserByUsername(username)
getUserByUsername(us, username) ==
    IF UserIndex(us, username) # 0 THEN us[UserIndex(us, username)] ELSE NoUser

\* storage.incrementLoginAttempts(username)
incrementLoginAttempts(us, username) ==
    IF UserIndex(us, username) # 0
    THEN [us EXCEPT ![UserIndex(us, username)].loginAttempts = @ + 1]
    ELSE us

\* storage.setCooldown(username, cooldownUntil)
setCooldown(us, username, until) ==
    IF UserIndex(us, username) # 0
    THEN [us EXCEPT ![UserIndex(us, username)].cooldownUntil = <<until>>]
    ELSE us

\* storage.resetLoginAttempts(username): attempts back to 0, cooldown cleared.
resetLoginAttempts(us, username) ==
    IF UserIndex(us, username) # 0
    THEN [us EXCEPT ![UserIndex(us, username)].loginAttempts = 0,
                    ![UserIndex(us, username)].cooldownUntil = Null]
    ELSE us

\* storage.registerUser(data) throws "Username already exists" for a taken name.
usernameExists(us, username) == UserIndex(us, username) # 0

\* storage.registerUser(data): inserts the user, the password hashed.
registerUser(us, username, password, role) ==
    Append(us, NewUser(<<"uid", Len(us) + 1>>, username, password, role))

\* storage.createSession(userId): a session with a fresh id.
createSession(ss, seq, userId) ==
    ((seq + 1) :> [id |-> seq + 1, userId |-> userId]) @@ ss

\* storage.deleteSession(sessionId): removes the session if there is one.
deleteSession(ss, sid) ==
    [k \in DOMAIN ss \ {sid} |-> ss[k]]

NoSession == [id |-> "none"]

\* storage.getSession(sessionId)
getSession(ss, sid) == IF sid \in DOMAIN ss THEN ss[sid] ELSE NoSession

\* storage.getUser(id): the user document with that id, if there is one.
getUser(us, id) ==
    IF \E i \in 1..Len(us) : us[i].id = id
    THEN us[CHOOSE i \in 1..Len(us) : us[i].id = id]
    ELSE NoUser

\* Mutant: the user is sent as stored, password hash included.
safeUser_WithPassword(user) == user

\* const { password, ...safeUser } = user
safeUser(user) == [f \in DOMAIN user \ {"password"} |-> user[f]]

\* loginSchema.parse(req.body): username and password must be non-empty.
loginSchemaOk(username, password) == username # "" /\ password # ""

\* registerSchema.parse(req.body): non-empty, and the confirmation matches.
registerSchemaOk(username, password, confirmPassword) ==
    username # "" /\ password # "" /\ confirmPassword = password

\* Mutant: a cooldown that has been set never runs out.
CooldownActive_NoExpiry(user, t) ==
    user.cooldownUntil # Null

\* user.cooldownUntil && user.cooldownUntil > new Date()
CooldownActive(user, t) ==
    user.cooldownUntil # Null /\ user.cooldownUntil[1] > t

\* Math.ceil(ms / 1000)
CeilSeconds(ms) == (ms + 999) \div 1000

\* The request's locals with its response filled in.
Respond(r, status, body) ==
    [q \in DOMAIN r \ {"pc", "status", "body"} |-> r[q]] @@
    [pc |-> "done", status |-> status, body |-> body]

\* One more failed login of the user; the history counts up to 5 of them.
Failed(username) ==
    [streak EXCEPT ![username] = IF @ < 5 THEN @ + 1 ELSE @]

(***************************************************************************)
(* POST /api/login                                                         *)
(***************************************************************************)
\* Mutant: a login rejected by the cooldown is counted as a failed attempt.
LoginLookup_CountsLocked(p) ==
    /\ Free(p)
    /\ sessionSeq < MaxSessions
    /\ \E username \in Usernames, password \in Passwords :
         /\ LET user == getUserByUsername(users, username)
                base == [op |-> "login", username |-> username, password |-> password,
                         user |-> user, cookie |-> Null]
                locked == loginSchemaOk(username, password) /\ user # NoUser
                          /\ CooldownActive(user, now)
            IN /\ (user # NoUser /\ ~locked /\ ~bcryptCompare(password, user.password))
                     => user.loginAttempts < MaxAttempts
               /\ req' = [req EXCEPT ![p] =
                    IF ~loginSchemaOk(username, password)
                    THEN Respond(base, 400, [message |-> "Invalid request data"])
                    ELSE IF user = NoUser
                    THEN Respond(base, 401, [message |-> "Invalid credentials"])
                    ELSE IF CooldownActive(user, now)
                    THEN Respond(base, 429,
                           [message |-> "Account temporarily locked. Try again later.",
                            remainingSeconds |-> CeilSeconds(user.cooldownUntil[1] - now)])
                    ELSE base @@ [pc |-> "login_compare", status |-> 0]]
               /\ streak' = IF locked THEN Failed(username) ELSE streak
               /\ users' = IF locked THEN incrementLoginAttempts(users, username) ELSE users
    /\ UNCHANGED <<products, sessions, sessionSeq, now, lockMs,
                 isConnected, frontendReady, connects, failures>>

\* Lines 38-48: parse the body, look the user up, check the cooldown.
LoginLookup(p) ==
    /\ Free(p)
    /\ sessionSeq < MaxSessions
    /\ \E username \in Usernames, password \in Passwords :
         /\ LET user == getUserByUsername(users, username)
                base == [op |-> "login", username |-> username, password |-> password,
                         user |-> user, cookie |-> Null]
                locked == loginSchemaOk(username, password) /\ user # NoUser
                          /\ CooldownActive(user, now)
            IN /\ (user # NoUser /\ ~locked /\ ~bcryptCompare(password, user.password))
                     => user.loginAttempts < MaxAttempts
               /\ req' = [req EXCEPT ![p] =
                    IF ~loginSchemaOk(username, password)
                    THEN Respond(base, 400, [message |-> "Invalid request data"])
                    ELSE IF user = NoUser
                    THEN Respond(base, 401, [message |-> "Invalid credentials"])
                    ELSE IF CooldownActive(user, now)
                    THEN Respond(base, 429,
                           [message |-> "Account temporarily locked. Try again later.",
                            remainingSeconds |-> CeilSeconds(user.cooldownUntil[1] - now)])
                    ELSE base @@ [pc |-> "login_compare", status |-> 0]]
               /\ streak' = IF locked THEN Failed(username) ELSE streak
    /\ UNCHANGED <<products, users, sessions, sessionSeq, now, lockMs,
                 isConnected, frontendReady, connects, failures>>

\* Mutant: a successful comparison goes on without resetting the counters.
LoginCompare_NoReset(p) ==
    /\ req[p].pc = "login_compare"
    /\ LET isValid == bcryptCompare(req[p].password, req[p].user.password)
       IN IF isValid
          THEN /\ users' = users
               /\ req' = [req EXCEPT ![p].pc = "login_session"]
          ELSE /\ users' = incrementLoginAttempts(users, req[p].username)
               /\ req' = [req EXCEPT ![p].pc = "login_failed"]
    /\ UNCHANGED <<products, sessions, sessionSeq, now, streak, lockMs,
                 isConnected, frontendReady, connects, failures>>

\* Lines 50-52 and 66: compare the password, then count the failure or
\* reset the counters.
LoginCompare(p) ==
    /\ req[p].pc = "login_compare"
    /\ LET isValid == bcryptCompare(req[p].password, req[p].user.password)
       IN IF isValid
          THEN /\ users' = resetLoginAttempts(users, req[p].username)
               /\ req' = [req EXCEPT ![p].pc = "login_session"]
          ELSE /\ users' = incrementLoginAttempts(users, req[p].username)
               /\ req' = [req EXCEPT ![p].pc = "login_failed"]
    /\ UNCHANGED <<products, sessions, sessionSeq, now, streak, lockMs,
                 isConnected, frontendReady, connects, failures>>

\* Mutant: the lockout lasts one minute.
lockoutUntil_OneMinute(t) == t + 60 * 1000

\* new Date(Date.now() + 5 * 60 * 1000) (line 55)
lockoutUntil(t) == t + CooldownMs

\* Mutant: a wrong password is answered with a message of its own.
LoginFailed_WrongPassword(p) ==
    /\ req[p].pc = "login_failed"
    /\ IF req[p].user.loginAttempts >= LockThreshold
       THEN LET cooldownUntil == lockoutUntil(now)
            IN /\ users' = setCooldown(users, req[p].username, cooldownUntil)
               /\ req' = [req EXCEPT ![p] = Respond(req[p], 429,
                    [message |-> "Too many failed attempts. Account locked for 5 minutes.",
                     cooldownUntil |-> cooldownUntil])]
               /\ lockMs' = [lockMs EXCEPT ![req[p].username] =
                               Append(@, cooldownUntil - now)]
       ELSE /\ users' = users
            /\ req' = [req EXCEPT ![p] =
                    Respond(req[p], 401, [message |-> "Wrong password"])]
            /\ lockMs' = lockMs
    /\ streak' = Failed(req[p].username)
    /\ UNCHANGED <<products, sessions, sessionSeq, now,
                 isConnected, frontendReady, connects, failures>>

\* Mutant: the account is locked one failed attempt later.
LoginFailed_LocksLate(p) ==
    /\ req[p].pc = "login_failed"
    /\ IF req[p].user.loginAttempts > LockThreshold
       THEN LET cooldownUntil == lockoutUntil(now)
            IN /\ users' = setCooldown(users, req[p].username, cooldownUntil)
               /\ req' = [req EXCEPT ![p] = Respond(req[p], 429,
                    [message |-> "Too many failed attempts. Account locked for 5 minutes.",
                     cooldownUntil |-> cooldownUntil])]
               /\ lockMs' = [lockMs EXCEPT ![req[p].username] =
                               Append(@, cooldownUntil - now)]
       ELSE /\ users' = users
            /\ req' = [req EXCEPT ![p] =
                    Respond(req[p], 401, [message |-> "Invalid credentials"])]
            /\ lockMs' = lockMs
    /\ streak' = Failed(req[p].username)
    /\ UNCHANGED <<products, sessions, sessionSeq, now,
                 isConnected, frontendReady, connects, failures>>

\* Mutant: a failure after a cooldown that has run out is answered 401 again.
LoginFailed_ForgivesExpired(p) ==
    /\ req[p].pc = "login_failed"
    /\ IF req[p].user.loginAttempts >= LockThreshold /\ req[p].user.cooldownUntil = Null
       THEN LET cooldownUntil == lockoutUntil(now)
            IN /\ users' = setCooldown(users, req[p].username, cooldownUntil)
               /\ req' = [req EXCEPT ![p] = Respond(req[p], 429,
                    [message |-> "Too many failed attempts. Account locked for 5 minutes.",
                     cooldownUntil |-> cooldownUntil])]
               /\ lockMs' = [lockMs EXCEPT ![req[p].username] =
                               Append(@, cooldownUntil - now)]
       ELSE /\ users' = users
            /\ req' = [req EXCEPT ![p] =
                    Respond(req[p], 401, [message |-> "Invalid credentials"])]
            /\ lockMs' = lockMs
    /\ streak' = Failed(req[p].username)
    /\ UNCHANGED <<products, sessions, sessionSeq, now,
                 isConnected, frontendReady, connects, failures>>

\* Lines 54-63: lock the account if the attempts read at lookup had reached
\* the threshold, and answer 429 or 401.
LoginFailed(p) ==
    /\ req[p].pc = "login_failed"
    /\ IF req[p].user.loginAttempts >= LockThreshold
       THEN LET cooldownUntil == lockoutUntil(now)
            IN /\ users' = setCooldown(users, req[p].username, cooldownUntil)
               /\ req' = [req EXCEPT ![p] = Respond(req[p], 429,
                    [message |-> "Too many failed attempts. Account locked for 5 minutes.",
                     cooldownUntil |-> cooldownUntil])]
               /\ lockMs' = [lockMs EXCEPT ![req[p].username] =
                               Append(@, cooldownUntil - now)]
       ELSE /\ users' = users
            /\ req' = [req EXCEPT ![p] =
                    Respond(req[p], 401, [message |-> "Invalid credentials"])]
            /\ lockMs' = lockMs
    /\ streak' = Failed(req[p].username)
    /\ UNCHANGED <<products, sessions, sessionSeq, now,
                 isConnected, frontendReady, connects, failures>>

\* Lines 67-77: create the session, set the cookie, answer with the user.
LoginSession(p) ==
    /\ req[p].pc = "login_session"
    /\ sessions' = createSession(sessions, sessionSeq, req[p].user.id)
    /\ sessionSeq' = sessionSeq + 1
    /\ req' = [req EXCEPT ![p] =
         [Respond(req[p], 200,
            [user |-> safeUser(req[p].user), session |-> sessions'[sessionSeq + 1]])
          EXCEPT !.cookie = <<sessionSeq + 1>>]]
    /\ streak' = [streak EXCEPT ![req[p].username] = 0]
    /\ lockMs' = [lockMs EXCEPT ![req[p].username] = <<>>]
    /\ UNCHANGED <<products, users, now,
                 isConnected, frontendReady, connects, failures>>

(***************************************************************************)
(* POST /api/register                                                      *)
(***************************************************************************)
\* Mutant: the duplicate-username error is not recognised and answered 400.
Register_ConflictAs400(p) ==
    /\ Free(p)
    /\ \E username \in Usernames, password \in {"good"},
          confirmPassword \in {"good", "bad"}, role \in Roles :
         LET base == [op |-> "register", username |-> username, password |-> password,
                      confirmPassword |-> confirmPassword, role |-> role]
         IN IF ~registerSchemaOk(username, password, confirmPassword)
            THEN /\ users' = users
                 /\ req' = [req EXCEPT ![p] =
                      Respond(base, 400, [message |-> "Invalid request data"])]
            ELSE IF usernameExists(users, username)
            THEN /\ users' = users
                 /\ req' = [req EXCEPT ![p] =
                      Respond(base, 400, [message |-> "Invalid request"])]
            ELSE /\ users' = registerUser(users, username, password, role)
                 /\ req' = [req EXCEPT ![p] =
                      Respond(base, 201, [user |-> safeUser(users'[Len(users')])])]
    /\ UNCHANGED <<products, sessions, sessionSeq, now, streak, lockMs,
                 isConnected, frontendReady, connects, failures>>

\* Lines 85-100.
Register(p) ==
    /\ Free(p)
    /\ \E username \in Usernames, password \in {"good"},
          confirmPassword \in {"good", "bad"}, role \in Roles :
         LET base == [op |-> "register", username |-> username, password |-> password,
                      confirmPassword |-> confirmPassword, role |-> role]
         IN IF ~registerSchemaOk(username, password, confirmPassword)
            THEN /\ users' = users
                 /\ req' = [req EXCEPT ![p] =
                      Respond(base, 400, [message |-> "Invalid request data"])]
            ELSE IF usernameExists(users, username)
            THEN /\ users' = users
                 /\ req' = [req EXCEPT ![p] =
                      Respond(base, 409, [message |-> "Username already exists"])]
            ELSE /\ users' = registerUser(users, username, password, role)
                 /\ req' = [req EXCEPT ![p] =
                      Respond(base, 201, [user |-> safeUser(users'[Len(users')])])]
    /\ UNCHANGED <<products, sessions, sessionSeq, now, streak, lockMs,
                 isConnected, frontendReady, connects, failures>>

(***************************************************************************)
(* POST /api/logout                                                        *)
(***************************************************************************)
\* The sessionId cookie of a request: none, or any id a client may hold.
Cookies == {Null} \cup {<<sid>> : sid \in 1..(MaxSessions + 1)}

\* Mutant: logout answers 401 unless the cookie names a stored session.
Logout_RequiresSession(p) ==
    /\ Free(p)
    /\ \E cookie \in Cookies :
         /\ sessions' = IF cookie # Null THEN deleteSession(sessions, cookie[1])
                        ELSE sessions
         /\ req' = [req EXCEPT ![p] =
              IF cookie # Null /\ cookie[1] \in DOMAIN sessions
              THEN Respond([op |-> "logout", sent |-> cookie, cookie |-> Null],
                           200, [message |-> "Logged out successfully"])
              ELSE Respond([op |-> "logout", sent |-> cookie, cookie |-> Null],
                           401, [message |-> "Not logged in"])]
    /\ UNCHANGED <<products, users, sessionSeq, now, streak, lockMs,
                 isConnected, frontendReady, connects, failures>>

\* Mutant: logout clears the cookie but leaves the session stored.
Logout_KeepsSession(p) ==
    /\ Free(p)
    /\ \E cookie \in Cookies :
         /\ sessions' = sessions
         /\ req' = [req EXCEPT ![p] =
              Respond([op |-> "logout", sent |-> cookie, cookie |-> Null],
                      200, [message |-> "Logged out successfully"])]
    /\ UNCHANGED <<products, users, sessionSeq, now, streak, lockMs,
                 isConnected, frontendReady, connects, failures>>

\* Mutant: logout ends every session of the store.
Logout_DeletesAll(p) ==
    /\ Free(p)
    /\ \E cookie \in Cookies :
         /\ sessions' = IF cookie # Null /\ cookie[1] \in DOMAIN sessions
                        THEN <<>> ELSE sessions
         /\ req' = [req EXCEPT ![p] =
              Respond([op |-> "logout", sent |-> cookie, cookie |-> Null],
                      200, [message |-> "Logged out successfully"])]
    /\ UNCHANGED <<products, users, sessionSeq, now, streak, lockMs,
                 isConnected, frontendReady, connects, failures>>

\* Lines 104-109.
Logout(p) ==
    /\ Free(p)
    /\ \E cookie \in Cookies :
         /\ sessions' = IF cookie # Null THEN deleteSession(sessions, cookie[1])
                        ELSE sessions
         /\ req' = [req EXCEPT ![p] =
              Respond([op |-> "logout", sent |-> cookie, cookie |-> Null],
                      200, [message |-> "Logged out successfully"])]
    /\ UNCHANGED <<products, users, sessionSeq, now, streak, lockMs,
                 isConnected, frontendReady, connects, failures>>

(***************************************************************************)
(* GET /api/me                                                             *)
(***************************************************************************)
\* Lines 17-21: read the cookie, look the session up.
MeSession(p) ==
    /\ Free(p)
    /\ \E cookie \in Cookies :
         LET base == [op |-> "me", sent |-> cookie, cookie |-> Null,
                      session |-> IF cookie = Null THEN NoSession
                                  ELSE getSession(sessions, cookie[1])]
         IN req' = [req EXCEPT ![p] =
              IF cookie = Null
              THEN Respond(base, 401, [message |-> "Not logged in"])
              ELSE IF base.session = NoSession
              THEN Respond(base, 401, [message |-> "Invalid session"])
              ELSE base @@ [pc |-> "me_user", status |-> 0]]
    /\ UNCHANGED <<products, users, sessions, sessionSeq, now, streak, lockMs,
                 isConnected, frontendReady, connects, failures>>

\* Mutant: a session whose user is gone is answered 401.
MeUser_Unauthenticated(p) ==
    /\ req[p].pc = "me_user"
    /\ LET user == getUser(users, req[p].session.userId)
       IN req' = [req EXCEPT ![p] =
            IF user = NoUser
            THEN Respond(req[p], 401, [message |-> "User not found"])
            ELSE Respond(req[p], 200, [user |-> safeUser(user)])]
    /\ UNCHANGED <<products, users, sessions, sessionSeq, now, streak, lockMs,
                 isConnected, frontendReady, connects, failures>>

\* Lines 23-27: look the session's user up, answer without the password.
MeUser(p) ==
    /\ req[p].pc = "me_user"
    /\ LET user == getUser(users, req[p].session.userId)
       IN req' = [req EXCEPT ![p] =
            IF user = NoUser
            THEN Respond(req[p], 404, [message |-> "User not found"])
            ELSE Respond(req[p], 200, [user |-> safeUser(user)])]
    /\ UNCHANGED <<products, users, sessions, sessionSeq, now, streak, lockMs,
                 isConnected, frontendReady, connects, failures>>

\* A user document that has a session is removed from the store by hand.
UserRemoved ==
    /\ \E i \in 1..Len(users) :
         /\ \E sid \in DOMAIN sessions : sessions[sid].userId = users[i].id
         /\ users' = SubSeq(users, 1, i - 1) \o SubSeq(users, i + 1, Len(users))
    /\ UNCHANGED <<products, sessions, sessionSeq, now, streak, lockMs, req,
                 isConnected, frontendReady, connects, failures>>

(***************************************************************************)
(* Storage calls that throw                                                *)
(***************************************************************************)
\* The locals of a request whose storage call has thrown.
Threw(r) == [q \in DOMAIN r \ {"threw"} |-> r[q]] @@ [threw |-> TRUE]

\* A storage call of /api/login rejects (getUserByUsername at line 39, or a
\* later call): the catch at lines 78-81 answers 400.
LoginThrows(p) ==
    /\ \/ /\ Free(p)
          /\ \E username \in Usernames, password \in Passwords :
               /\ loginSchemaOk(username, password)
               /\ req' = [req EXCEPT ![p] =
                    Respond(Threw([op |-> "login", username |-> username,
                                   password |-> password, user |-> NoUser,
                                   cookie |-> Null]),
                            400, [message |-> "Invalid request data"])]
       \/ /\ req[p].pc \in {"login_compare", "login_session"}
          /\ req' = [req EXCEPT ![p] =
               Respond(Threw(req[p]), 400, [message |-> "Invalid request data"])]
    /\ UNCHANGED <<products, users, sessions, sessionSeq, now, streak, lockMs,
                 isConnected, frontendReady, connects, failures>>

\* storage.registerUser rejects with an error other than "Username already
\* exists": the catch at lines 92-100 answers 400.
RegisterThrows(p) ==
    /\ Free(p)
    /\ \E username \in Usernames, role \in Roles :
         req' = [req EXCEPT ![p] =
           Respond(Threw([op |-> "register", username |-> username,
                          password |-> "good", confirmPassword |-> "good",
                          role |-> role]),
                   400, [message |-> "Invalid request"])]
    /\ UNCHANGED <<products, users, sessions, sessionSeq, now, streak, lockMs,
                 isConnected, frontendReady, connects, failures>>

\* storage.deleteSession rejects: /api/logout has no try/catch, so the
\* handler's promise rejects. Either nothing is sent at all, or the
\* framework hands the error to the error handler of index.ts (94-98),
\* which answers 500 with the error's message.
LogoutThrows(p) ==
    /\ Free(p)
    /\ \E cookie \in Cookies \ {Null}, handled \in BOOLEAN :
         req' = [req EXCEPT ![p] =
           IF handled
           THEN Respond(Threw([op |-> "logout", sent |-> cookie, cookie |-> cookie]),
                        500, [message |-> "storage error"])
           ELSE Threw([op |-> "logout", sent |-> cookie, cookie |-> cookie]) @@
                [pc |-> "aborted", status |-> 0]]
    /\ UNCHANGED <<products, users, sessions, sessionSeq, now, streak, lockMs,
                 isConnected, frontendReady, connects, failures>>

\* A storage call of /api/products/:id/deduct rejects (the lookup at lines
\* 171-173 or a later call): the catch at lines 186-188 answers 500.
DeductThrows(p) ==
    /\ \/ /\ Free(p)
          /\ \E id \in ReqIds, quantity \in Qtys :
               req' = [req EXCEPT ![p] =
                 Respond(Threw([op |-> "deduct", id |-> id, quantity |-> quantity,
                                product |-> NoProduct, pre |-> products]),
                         500, [message |-> "Failed to deduct stock"])]
       \/ /\ req[p].pc \in {"deduct_write", "deduct_respond"}
          /\ req' = [req EXCEPT ![p] =
               Respond(Threw(req[p]), 500, [message |-> "Failed to deduct stock"])]
    /\ UNCHANGED <<products, users, sessions, sessionSeq, now, streak, lockMs,
                 isConnected, frontendReady, connects, failures>>

(***************************************************************************)
(* GET /api/reports/:period                                                *)
(***************************************************************************)
\* Values of req.params.period a client may send.
Periods == {"daily", "weekly", "monthly", "Weekly"}

\* storage.getSalesReport(period): the aggregated entries of that window.
\* No route of the server writes a sale to the store, so there are none.
getSalesReport(period) == [window |-> period, entries |-> <<>>]

\* Mutant: the period of the request is handed to the store as it is.
reportPeriod_AsSent(period) == period

\* req.params.period === "weekly" ? "weekly" : "daily" (line 244)
reportPeriod(period) == IF period = "weekly" THEN "weekly" ELSE "daily"

\* Lines 242-250.
Report(p) ==
    /\ Free(p)
    /\ \E period \in Periods :
         req' = [req EXCEPT ![p] =
           Respond([op |-> "report", period |-> period],
                   200, getSalesReport(reportPeriod(period)))]
    /\ UNCHANGED <<products, users, sessions, sessionSeq, now, streak, lockMs,
                 isConnected, frontendReady, connects, failures>>

(***************************************************************************)
(* POST /api/products                                                      *)
(***************************************************************************)
\* Values of req.body.id a client may send; the empty one is "no id".
NewManualIds == {"", "P001", "P002", "P003", "P004"}

\* Internal ids the store gives to created products.
NewIds == {"o3", "o4", "o5"}

\* storage.createProduct(data): inserts the product under a fresh internal id.
createProduct(ps, manualId) ==
    LET o == CHOOSE n \in NewIds \ DOMAIN ps : TRUE
    IN [k \in DOMAIN ps \cup {o} |->
          IF k = o
          THEN [id |-> o, manualId |-> manualId, name |-> "New", price |-> 1, quantity |-> 1]
          ELSE ps[k]]

\* Lines 136-138: require an id, look it up as a manual id, answer 409 if
\* a product has it.
ProductLookup(p) ==
    /\ Free(p)
    /\ \E id \in NewManualIds :
         LET base == [op |-> "product", id |-> id, pre |-> products]
         IN req' = [req EXCEPT ![p] =
              IF id = ""
              THEN Respond(base, 400, [message |-> "Product ID required"])
              ELSE IF getProductByManualId(products, id) # NoProduct
              THEN Respond(base, 409, [message |-> "Product ID exists"])
              ELSE base @@ [pc |-> "product_create", status |-> 0]]
    /\ UNCHANGED <<products, users, sessions, sessionSeq, now, streak, lockMs,
                 isConnected, frontendReady, connects, failures>>

\* Lines 139-140: create the product and answer 201 with it.
ProductCreate(p) ==
    /\ req[p].pc = "product_create"
    /\ NewIds \ DOMAIN products # {}
    /\ products' = createProduct(products, req[p].id)
    /\ req' = [req EXCEPT ![p] =
         Respond(req[p], 201,
                 products'[CHOOSE n \in DOMAIN products' \ DOMAIN products : TRUE])]
    /\ UNCHANGED <<users, sessions, sessionSeq, now, streak, lockMs,
                 isConnected, frontendReady, connects, failures>>

(***************************************************************************)
(* index.ts: connectDB, setupFrontend, and the calls that run them         *)
(***************************************************************************)
\* A call of handler (103-112) or the startup call (117-130) begins
\* connectDB (54-61): return at once if isConnected, else start
\* mongoose.connect and wait for it.
ConnectStart(p) ==
    /\ Free(p)
    /\ IF isConnected
       THEN /\ req' = [req EXCEPT ![p] =
                 [op |-> "invoke", pc |-> "frontend", status |-> 0, dispatched |-> FALSE]]
            /\ connects' = connects
       ELSE /\ connects < MaxConnects
            /\ req' = [req EXCEPT ![p] =
                 [op |-> "invoke", pc |-> "connecting", status |-> 0, dispatched |-> FALSE]]
            /\ connects' = connects + 1
    /\ UNCHANGED <<products, users, sessions, sessionSeq, now, streak, lockMs,
                   isConnected, frontendReady, failures>>

\* mongoose.connect settles (61-68): isConnected = true, or the error is
\* rethrown and the caller's catch answers 500 (108-111).
ConnectEnd(p) ==
    /\ req[p].pc = "connecting"
    /\ \E ok \in BOOLEAN :
         IF ok
         THEN /\ isConnected' = TRUE
              /\ failures' = failures
              /\ req' = [req EXCEPT ![p].pc = "frontend"]
         ELSE /\ isConnected' = isConnected
              /\ failures' = failures + 1
              /\ req' = [req EXCEPT ![p] =
                   Respond(req[p], 500, [message |-> "Server error"])]
    /\ UNCHANGED <<products, users, sessions, sessionSeq, now, streak, lockMs,
                   frontendReady, connects>>

\* The request is handed to the app (line 107) or the server listens (121).
Dispatched(r) ==
    [q \in DOMAIN r \ {"pc", "status", "dispatched"} |-> r[q]] @@
    [pc |-> "done", status |-> 200, dispatched |-> TRUE]

\* setupFrontend (80-88): return at once if frontendReady; in development
\* wait for setupVite, else serveStatic and set the flag.
FrontendStart(p) ==
    /\ req[p].pc = "frontend"
    /\ \E development \in BOOLEAN :
         IF frontendReady \/ ~development
         THEN /\ frontendReady' = TRUE
              /\ req' = [req EXCEPT ![p] = Dispatched(req[p])]
         ELSE /\ frontendReady' = frontendReady
              /\ req' = [req EXCEPT ![p].pc = "frontend_setup"]
    /\ UNCHANGED <<products, users, sessions, sessionSeq, now, streak, lockMs,
                   isConnected, connects, failures>>

\* setupVite has settled (line 83): set the flag (87).
FrontendEnd(p) ==
    /\ req[p].pc = "frontend_setup"
    /\ frontendReady' = TRUE
    /\ req' = [req EXCEPT ![p] = Dispatched(req[p])]
    /\ UNCHANGED <<products, users, sessions, sessionSeq, now, streak, lockMs,
                   isConnected, connects, failures>>

(***************************************************************************)
(* client: TransactionPage.tsx, confirming a payment                       *)
(***************************************************************************)
\* A cart line: a product as fetched (or one deleted since), with the
\* quantity to buy; updateQty keeps it at 1 or more.
CartItem ==
    {[id |-> o, price |-> InitProducts[o].price, purchaseQty |-> q] :
        o \in DOMAIN InitProducts, q \in {1, MaxQty}}
    \cup {[id |-> "o9", price |-> 1, purchaseQty |-> 1]}

Carts == UNION {[1..n -> CartItem] : n \in 1..MaxItems}

\* cart.reduce((sum, item) => sum + item.price * (item.purchaseQty || 1), 0)
RECURSIVE cartTotal(_, _)
cartTotal(cart, n) ==
    IF n = 0 THEN 0
    ELSE cartTotal(cart, n - 1) + cart[n].price * cart[n].purchaseQty

\* typeof cashGiven !== "number" || cashGiven < total (line 92)
invalidAmount(cashGiven, total) == cashGiven = Null \/ cashGiven[1] < total

\* The status the deduct route answers for that product and quantity.
deductStatus(ps, id, quantity) ==
    IF resolveProduct(ps, id) = NoProduct THEN 404
    ELSE IF insufficientStock(resolveProduct(ps, id), quantity) THEN 400
    ELSE 200

\* Lines 91-99: refuse an amount that is no number or below the total.
ConfirmPayment(p) ==
    /\ Free(p)
    /\ \E cart \in Carts :
       \E cashGiven \in {Null, <<cartTotal(cart, Len(cart)) - 1>>,
                         <<cartTotal(cart, Len(cart))>>} :
         LET base == [op |-> "pay", cart |-> cart, cashGiven |-> cashGiven,
                      idx |-> 1, statuses |-> <<>>, isPaid |-> FALSE,
                      status |-> 0]
         IN req' = [req EXCEPT ![p] =
              IF invalidAmount(cashGiven, cartTotal(cart, Len(cart)))
              THEN base @@ [pc |-> "done", toast |-> "Invalid Amount"]
              ELSE base @@ [pc |-> "pay_deduct", toast |-> ""]]
    /\ UNCHANGED <<products, users, sessions, sessionSeq, now, streak, lockMs,
                   isConnected, frontendReady, connects, failures>>

\* Lines 65-77: the deduct request of the next cart line. The server
\* answers it (and deducts if it accepts), or fetch throws and the catch
\* ends the loop; the answer's status is not looked at.
PayDeduct(p) ==
    /\ req[p].pc = "pay_deduct"
    /\ LET item == req[p].cart[req[p].idx]
           st == deductStatus(products, item.id, item.purchaseQty)
       IN \E answered \in BOOLEAN :
            IF answered
            THEN /\ products' = IF st = 200
                                THEN deductProductStock(products,
                                       resolveProduct(products, item.id).id,
                                       item.purchaseQty)
                                ELSE products
                 /\ req' = [req EXCEPT ![p].statuses = Append(@, st),
                                       ![p].idx = @ + 1,
                                       ![p].pc = IF req[p].idx = Len(req[p].cart)
                                                 THEN "pay_mark" ELSE "pay_deduct"]
            ELSE /\ products' = products
                 /\ req' = [req EXCEPT ![p].statuses = Append(@, 0),
                                       ![p].pc = "pay_mark"]
    /\ UNCHANGED <<users, sessions, sessionSeq, now, streak, lockMs,
                   isConnected, frontendReady, connects, failures>>

\* Lines 102-107: mark the sale paid and announce it.
PayMark(p) ==
    /\ req[p].pc = "pay_mark"
    /\ req' = [req EXCEPT ![p].isPaid = TRUE,
                          ![p].toast = "Payment Successful",
                          ![p].pc = "done"]
    /\ UNCHANGED <<products, users, sessions, sessionSeq, now, streak, lockMs,
                   isConnected, frontendReady, connects, failures>>

\* Time passes.
Tick ==
    /\ now < MaxTicks * TickMs
    /\ now' = now + TickMs
    /\ UNCHANGED <<products, users, sessions, sessionSeq, streak, req, lockMs,
                 isConnected, frontendReady, connects, failures>>

(***************************************************************************)
(* Specifications                                                          *)
(***************************************************************************)
Init ==
    /\ products = InitProducts
    /\ users = InitUsers
    /\ sessions = <<>>
    /\ sessionSeq = 0
    /\ now = 0
    /\ streak = [u \in Usernames |-> 0]
    /\ lockMs = [u \in Usernames |-> <<>>]
    /\ isConnected = FALSE /\ frontendReady = FALSE /\ connects = 0 /\ failures = 0
    /\ req = [p \in Procs |-> Idle]

InvStep(p) ==
    \/ DeductLookup(p)
    \/ DeductWrite(p)
    \/ DeductRespond(p)
    \/ SaleStart(p)
    \/ SaleLookup(p)
    \/ SaleWrite(p)

\* Inventory requests racing each other.
NextInv == \E p \in Racers : InvStep(p)
SpecInv == Init /\ [][NextInv]_vars

\* Inventory requests handled one after another.
NextInvSeq == \E p \in Serial : InvStep(p)
SpecInvSeq == Init /\ [][NextInvSeq]_vars

AuthStep(p) ==
    \/ LoginLookup(p)
    \/ LoginCompare(p)
    \/ LoginFailed(p)
    \/ LoginSession(p)
    \/ Register(p)
    \/ Logout(p)

\* Account requests handled one after another, with time passing in between.
NextAuthSeq == Tick \/ \E p \in Serial : AuthStep(p)
SpecAuthSeq == Init /\ [][NextAuthSeq]_vars

\* A store in which alice has already failed some logins, not yet locked.
InitRace ==
    \E a \in 0..LockThreshold :
        /\ products = InitProducts
        /\ users = [InitUsers EXCEPT ![1].loginAttempts = a]
        /\ sessions = <<>>
        /\ sessionSeq = 0
        /\ now = 0
        /\ streak = [u \in Usernames |-> IF u = "alice" THEN a ELSE 0]
        /\ lockMs = [u \in Usernames |-> <<>>]
        /\ isConnected = FALSE /\ frontendReady = FALSE /\ connects = 0 /\ failures = 0
        /\ req = [p \in Procs |-> Idle]

\* Account requests racing each other, with time passing.
NextAuth == Tick \/ \E p \in Racers : AuthStep(p)
SpecAuth == InitRace /\ [][NextAuth]_vars

\* Logins, logouts and current-user requests handled one after another,
\* in a store from which a user may be removed.
SessionStep(p) ==
    \/ LoginLookup(p)
    \/ LoginCompare(p)
    \/ LoginFailed(p)
    \/ LoginSession(p)
    \/ Logout(p)
    \/ MeSession(p)
    \/ MeUser(p)

NextSession == UserRemoved \/ \E p \in Serial : SessionStep(p)
SpecSession == Init /\ [][NextSession]_vars

\* Requests handled one after another over a store whose calls may throw.
FaultStep(p) ==
    \/ LoginLookup(p)
    \/ LoginCompare(p)
    \/ LoginFailed(p)
    \/ LoginSession(p)
    \/ LoginThrows(p)
    \/ RegisterThrows(p)
    \/ Logout(p)
    \/ LogoutThrows(p)
    \/ DeductLookup(p)
    \/ DeductWrite(p)
    \/ DeductRespond(p)
    \/ DeductThrows(p)

NextFault == \E p \in Serial : FaultStep(p)
SpecFault == Init /\ [][NextFault]_vars

\* Registrations, logins and current-user requests handled one after another.
AccountStep(p) ==
    \/ Register(p)
    \/ LoginLookup(p)
    \/ LoginCompare(p)
    \/ LoginFailed(p)
    \/ LoginSession(p)
    \/ MeSession(p)
    \/ MeUser(p)

NextAccount == \E p \in Serial : AccountStep(p)
SpecAccount == Init /\ [][NextAccount]_vars

\* Inventory requests and reports handled one after another.
NextReport == \E p \in Serial : InvStep(p) \/ Report(p)
SpecReport == Init /\ [][NextReport]_vars

\* Product creations racing and following each other.
NextProduct == \E p \in Procs : ProductLookup(p) \/ ProductCreate(p)
SpecProduct == Init /\ [][NextProduct]_vars

\* Calls of handler and the startup call, racing and following each other.
BootStep(p) ==
    \/ ConnectStart(p)
    \/ ConnectEnd(p)
    \/ FrontendStart(p)
    \/ FrontendEnd(p)

NextBoot == \E p \in Procs : BootStep(p)
SpecBoot == Init /\ [][NextBoot]_vars

\* Payments confirmed in the transaction page, one after another.
PageStep(p) ==
    \/ ConfirmPayment(p)
    \/ PayDeduct(p)
    \/ PayMark(p)

NextPage == \E p \in Serial : PageStep(p)
SpecPage == Init /\ [][NextPage]_vars

(***************************************************************************)
(* Claims about the inventory handlers                                     *)
(***************************************************************************)
\* A request of slot p that has been answered.
Done(p, op) == req[p].op = op /\ req[p].pc = "done"

\* Total quantity the first n items ask of product o.
RECURSIVE Sold(_, _, _, _)
Sold(items, ps, o, n) ==
    IF n = 0 THEN 0
    ELSE Sold(items, ps, o, n - 1) +
         (IF resolveProduct(ps, items[n].id).id = o THEN items[n].quantity ELSE 0)

\* Sum over the first n items of price * quantity.
RECURSIVE ItemsTotal(_, _, _)
ItemsTotal(items, ps, n) ==
    IF n = 0 THEN 0
    ELSE ItemsTotal(items, ps, n - 1) +
         resolveProduct(ps, items[n].id).price * items[n].quantity

\* The store ps with every item of the list deducted.
AllDeducted(ps, items) ==
    [o \in DOMAIN ps |->
        [ps[o] EXCEPT !.quantity = @ - Sold(items, ps, o, Len(items))]]

\* The request of slot p, if any, asks only for positive quantities.
PositiveQuantities(p) ==
    /\ req[p].op = "deduct" => req[p].quantity > 0
    /\ req[p].op = "sale" => \A i \in 1..Len(req[p].items) : req[p].items[i].quantity > 0

\* C1: a sale with a non-empty item list (of positive quantities) either
\* succeeds with every item's stock deducted, or fails with no product's
\* quantity changed.
C1_SaleAllOrNothing ==
    \A p \in Procs :
        (Done(p, "sale") /\ Len(req[p].items) > 0 /\ PositiveQuantities(p)) =>
            \/ req[p].status = 200 /\ products = AllDeducted(req[p].pre, req[p].items)
            \/ req[p].status # 200 /\ products = req[p].pre

\* C1 (case): a sale that failed for lack of stock after an earlier item of
\* it had passed its own checks.
C1_FailedAfterFirstItem ==
    \E p \in Procs :
        /\ Done(p, "sale") /\ req[p].status = 400
        /\ Len(req[p].items) = 2 /\ req[p].idx = 2

\* C2: after any deductions and sales, whatever the quantities asked, no
\* product's quantity is negative and no successful deduction has raised one.
C2_NeverNegativeNeverRaised ==
    /\ \A o \in DOMAIN products : products[o].quantity >= 0
    /\ \A p \in Procs :
         (Done(p, "deduct") /\ req[p].status = 200) =>
            \A o \in DOMAIN products : products[o].quantity <= req[p].pre[o].quantity

\* Quantity of product o that the answered request of slot p reports deducted.
RECURSIVE RecordsSold(_, _, _)
RecordsSold(records, o, n) ==
    IF n = 0 THEN 0
    ELSE RecordsSold(records, o, n - 1) +
         (IF records[n].productId = o THEN records[n].quantitySold ELSE 0)

Acked(p, o) ==
    IF Done(p, "deduct") /\ req[p].status = 200
    THEN (IF req[p].product.id = o THEN req[p].quantity ELSE 0)
    ELSE IF Done(p, "sale") /\ req[p].status = 200
    THEN RecordsSold(req[p].body.saleRecords, o, Len(req[p].body.saleRecords))
    ELSE 0

RECURSIVE AckedBy(_, _)
AckedBy(S, o) ==
    IF S = {} THEN 0
    ELSE LET p == CHOOSE q \in S : TRUE
         IN Acked(p, o) + AckedBy(S \ {p}, o)

\* C3: concurrent deductions and sales of one product (of positive
\* quantities) never together deduct more than its stock: no request
\* decrements on a quantity that another request changed after it was
\* checked, and no quantity drops below zero.
C3_NoStaleDeduction ==
    (\A p \in Procs : PositiveQuantities(p)) =>
    /\ \A o \in DOMAIN products : products[o].quantity >= 0
    /\ \A o \in DOMAIN products : AckedBy(Procs, o) <= InitProducts[o].quantity
    /\ \A p \in Procs :
         req[p].pc \in {"deduct_write", "sale_write"} =>
            products[req[p].product.id].quantity = req[p].product.quantity

\* C4: a successful sale returns the sum of price * quantity over its items
\* and one line per item, and leaves every product reduced by exactly the
\* quantity sold of it (products not in the sale unchanged).
C4_SaleTotalsAndStock ==
    \A p \in Procs :
        (Done(p, "sale") /\ req[p].status = 200) =>
            LET items == req[p].items
                pre == req[p].pre
                body == req[p].body
            IN /\ body.totalAmount = ItemsTotal(items, pre, Len(items))
               /\ Len(body.saleRecords) = Len(items)
               /\ \A i \in 1..Len(items) :
                    LET product == resolveProduct(pre, items[i].id)
                    IN body.saleRecords[i] =
                         [productId |-> product.id, productName |-> product.name,
                          quantitySold |-> items[i].quantity,
                          totalPrice |-> product.price * items[i].quantity]
               /\ products = AllDeducted(pre, items)

\* C4 (case): a successful two-item sale; and 3 of P001 (price 5) sold for 15.
C4_TwoItemSaleDone ==
    \E p \in Procs :
        /\ Done(p, "sale") /\ req[p].status = 200
        /\ Len(req[p].items) = 2
        /\ req[p].body.totalAmount > 0
        /\ \E o \in DOMAIN products : products[o].quantity < req[p].pre[o].quantity

\* C9: a deduction whose quantity is not a positive integer is rejected as
\* invalid and leaves the stock unchanged.
C9_DeductRejectsNonPositive ==
    \A p \in Procs :
        (Done(p, "deduct") /\ req[p].quantity <= 0) =>
            req[p].status = 400 /\ products = req[p].pre

\* C10: a deduction answers 404 for an unknown id and 400 for more than the
\* stock, both without changing any product; otherwise it decrements that
\* product by exactly the quantity and returns it with the reduced quantity.
C10_DeductOutcome ==
    \A p \in Procs :
        Done(p, "deduct") =>
            LET pre == req[p].pre
                product == resolveProduct(pre, req[p].id)
            IN IF product = NoProduct
               THEN req[p].status = 404 /\ products = pre
               ELSE IF req[p].quantity > product.quantity
               THEN req[p].status = 400 /\ products = pre
               ELSE /\ req[p].status = 200
                    /\ products = [pre EXCEPT ![product.id].quantity = @ - req[p].quantity]
                    /\ req[p].body.product =
                         [product EXCEPT !.quantity = @ - req[p].quantity]

\* C10 (case): each of the three outcomes, the successful one with a
\* positive quantity.
C10_DeductedDone ==
    \E p \in Procs :
        /\ Done(p, "deduct") /\ req[p].status = 200 /\ req[p].quantity > 0
        /\ req[p].body.product.quantity = req[p].product.quantity - req[p].quantity
        /\ products # req[p].pre

(***************************************************************************)
(* Claims about the account handlers                                       *)
(***************************************************************************)
\* The step starts a request of kind op in slot p (and answers it, if the
\* handler has a single step).
Starts(p, op) == Free(p) /\ req'[p] # req[p] /\ req'[p].op = op

\* The stored user document of the request of slot p.
Stored(p) == getUserByUsername(users, req[p].username)

\* C5: after 5 consecutive failed logins of a user every further login of
\* that user is answered 429 while the cooldown lasts, and while a cooldown
\* is set and in the future no login of that user succeeds or creates a
\* session, the correct password included.
C5_LockoutStep ==
    \A p \in Procs :
        /\ (/\ Starts(p, "login")
            /\ loginSchemaOk(req'[p].username, req'[p].password)
            /\ streak[req'[p].username] >= 5
            /\ getUserByUsername(users, req'[p].username) # NoUser
            /\ CooldownActive(getUserByUsername(users, req'[p].username), now))
           => (req'[p].pc = "done" /\ req'[p].status = 429 /\ sessions' = sessions)
        /\ (req[p].pc = "login_compare" /\ req'[p].pc = "login_session")
           => ~CooldownActive(Stored(p), now)
        /\ (req[p].pc = "login_session" /\ req'[p].pc = "done")
           => ~CooldownActive(Stored(p), now)

C5_LockoutBlocksLogin == [][C5_LockoutStep]_vars

\* C5 (case): a login with the correct password has passed the cooldown
\* check and is about to compare when the account is locked by another one.
C5_LockedWhileComparing ==
    \E p \in Procs :
        /\ req[p].pc = "login_compare"
        /\ bcryptCompare(req[p].password, req[p].user.password)
        /\ CooldownActive(Stored(p), now)

\* C6: a login with the correct password for a user not in cooldown
\* succeeds, creates exactly one new session bound to that user, and leaves
\* the user with loginAttempts 0 and cooldownUntil cleared.
C6_LoginStep ==
    \A p \in Procs :
        /\ (/\ Starts(p, "login")
            /\ loginSchemaOk(req'[p].username, req'[p].password)
            /\ getUserByUsername(users, req'[p].username) # NoUser
            /\ ~CooldownActive(getUserByUsername(users, req'[p].username), now)
            /\ bcryptCompare(req'[p].password,
                             getUserByUsername(users, req'[p].username).password))
           => req'[p].pc = "login_compare"
        /\ (/\ req[p].pc = "login_compare"
            /\ bcryptCompare(req[p].password, req[p].user.password)
            /\ req'[p] # req[p])
           => (req'[p].pc = "login_session" /\ sessions' = sessions)
        /\ (req[p].pc = "login_session" /\ req'[p] # req[p])
           => /\ req'[p].pc = "done" /\ req'[p].status = 200
              /\ \E sid \in DOMAIN sessions' \ DOMAIN sessions :
                   /\ DOMAIN sessions' = DOMAIN sessions \cup {sid}
                   /\ \A k \in DOMAIN sessions : sessions'[k] = sessions[k]
                   /\ sessions'[sid].userId = Stored(p).id
                   /\ req'[p].cookie = <<sid>>
                   /\ req'[p].body.session = sessions'[sid]
              /\ getUserByUsername(users', req[p].username).loginAttempts = 0
              /\ getUserByUsername(users', req[p].username).cooldownUntil = Null

C6_LoginSuccess == [][C6_LoginStep]_vars

\* C6 (case): a successful login of a user who had failed attempts counted
\* and an expired cooldown set when the login arrived.
C6_LoggedInAfterFailures ==
    \E p \in Procs :
        /\ Done(p, "login") /\ req[p].status = 200
        /\ req[p].user.loginAttempts > 0
        /\ req[p].user.cooldownUntil # Null
        /\ Stored(p).loginAttempts = 0
        /\ req[p].cookie # Null

\* C7: logout always answers 200, with no cookie, an unknown session id or
\* a session already logged out, and then changes nothing in the store; with
\* a stored session it removes that session and nothing else.
C7_LogoutStep ==
    \A p \in Procs :
        Starts(p, "logout") =>
            /\ req'[p].pc = "done" /\ req'[p].status = 200
            /\ users' = users /\ products' = products
            /\ (req'[p].sent = Null \/ req'[p].sent[1] \notin DOMAIN sessions)
               => sessions' = sessions
            /\ req'[p].sent # Null => req'[p].sent[1] \notin DOMAIN sessions'

C7_LogoutIdempotent == [][C7_LogoutStep]_vars

\* C7 (case): a logout answered for a session id that was created earlier
\* and is no longer stored.
C7_LoggedOutCreatedSession ==
    \E p \in Procs :
        /\ Done(p, "logout") /\ req[p].status = 200
        /\ req[p].sent # Null
        /\ req[p].sent[1] <= sessionSeq
        /\ req[p].sent[1] \notin DOMAIN sessions

\* C8: registering a taken username answers 409 and leaves the users
\* unchanged, and at most one user exists per username after any registers,
\* racing ones included.
C8_UniqueUsernames ==
    \A i, j \in 1..Len(users) : users[i].username = users[j].username => i = j

C8_RegisterStep ==
    \A p \in Procs :
        (/\ Starts(p, "register")
         /\ registerSchemaOk(req'[p].username, req'[p].password, req'[p].confirmPassword)
         /\ usernameExists(users, req'[p].username))
        => (req'[p].status = 409 /\ users' = users)

HasMissingProduct(items, ps) ==
    \E i \in 1..Len(items) : resolveProduct(ps, items[i].id) = NoProduct

\* C11: a sale with an item whose product does not exist fails as a whole,
\* with 404 naming the missing id when that is the answer, and no item's
\* stock has been deducted when it fails, the items before the missing one
\* included.
C11_MissingProductNoDeduction ==
    \A p \in Procs :
        (Done(p, "sale") /\ HasMissingProduct(req[p].items, req[p].pre)) =>
            /\ req[p].status \in {400, 404}
            /\ req[p].status = 404 =>
                 /\ req[p].body.message[1] = "Product not found:"
                 /\ resolveProduct(req[p].pre, req[p].body.message[2]) = NoProduct
            /\ products = req[p].pre

\* C11 (case): a sale answered 404 for its second item.
C11_MissingSecondItem ==
    \E p \in Procs :
        /\ Done(p, "sale") /\ req[p].status = 404
        /\ req[p].idx = 2
        /\ req[p].body.message = <<"Product not found:", "P404">>

\* C12: within one sale no stock is deducted until every item has been
\* resolved and has passed its stock check: a sale that still has an item
\* to validate has deducted nothing.
C12_ValidateAllBeforeDeduct ==
    \A p \in Procs :
        (req[p].op = "sale" /\ req[p].pc = "sale_lookup") =>
            /\ Len(req[p].saleRecords) = 0
            /\ products = req[p].pre

\* C12 (case): a sale about to validate its second item.
C12_ValidatingSecondItem ==
    \E p \in Procs :
        req[p].op = "sale" /\ req[p].pc = "sale_lookup" /\ req[p].idx = 2

\* C13: a sale whose items are empty or no array is answered 400 before any
\* product is read or modified.
C13_EmptySaleRejected ==
    \A p \in Procs :
        (req[p].op = "sale" /\ noSaleItems(req[p].isArray, req[p].items)) =>
            /\ req[p].pc = "done" /\ req[p].status = 400
            /\ req[p].body = [message |-> "No sale items provided"]
            /\ req[p].product = NoProduct /\ req[p].saleRecords = <<>>
            /\ products = req[p].pre

\* C13 (case): both kinds of rejected sale: an empty array, and no array,
\* the latter in a store whose stock earlier requests have changed.
C13_EmptySaleAnswered ==
    \E p \in Procs :
        /\ Done(p, "sale") /\ req[p].status = 400
        /\ ~req[p].isArray
        /\ products # InitProducts

(***************************************************************************)
(* Claims about the login responses and the lockout                        *)
(***************************************************************************)
\* The answer to a login for a username that no user has (line 40).
unknownUserResponse == [status |-> 401, body |-> [message |-> "Invalid credentials"]]

\* The answer a finished request of slot p has sent.
Response(p) == [status |-> req[p].status, body |-> req[p].body]

\* A finished login of slot p for an existing user with a wrong password.
WrongPassword(p) ==
    /\ Done(p, "login")
    /\ loginSchemaOk(req[p].username, req[p].password)
    /\ req[p].user # NoUser
    /\ ~bcryptCompare(req[p].password, req[p].user.password)

\* C14 (as claimed): a wrong-password login for an existing username is
\* answered as a login for a non-existent username is, for every number of
\* prior failed attempts.
C14_SameFailureResponse ==
    \A p \in Procs : WrongPassword(p) => Response(p) = unknownUserResponse

\* C14: a login for a non-existent username is always answered 401 "Invalid
\* credentials", and a wrong-password login for an existing username is
\* answered the same as long as the user's counted failed attempts are below
\* the lock threshold; from then on the existing user is answered 429.
C14_SameResponseBelowThreshold ==
    \A p \in Procs :
        /\ (Done(p, "login") /\ loginSchemaOk(req[p].username, req[p].password)
              /\ req[p].user = NoUser)
             => Response(p) = unknownUserResponse /\ req[p].cookie = Null
        /\ WrongPassword(p) =>
             IF req[p].user.loginAttempts < LockThreshold
             THEN Response(p) = unknownUserResponse /\ req[p].cookie = Null
             ELSE req[p].status = 429

\* C14 (case): the second wrong password for an existing user, answered 401.
C14_SecondWrongPassword ==
    \E p \in Procs :
        WrongPassword(p) /\ req[p].user.loginAttempts = LockThreshold - 1
          /\ req[p].status = 401

C16_StateStep ==
    \A p \in Procs :
        /\ (/\ Starts(p, "login")
            /\ loginSchemaOk(req'[p].username, req'[p].password)
            /\ getUserByUsername(users, req'[p].username) # NoUser
            /\ getUserByUsername(users, req'[p].username).cooldownUntil # Null
            /\ getUserByUsername(users, req'[p].username).cooldownUntil[1] <= now
            /\ bcryptCompare(req'[p].password,
                             getUserByUsername(users, req'[p].username).password))
           => (req'[p].pc = "login_compare" /\ req'[p].status = 0)
        /\ (/\ req[p].pc = "login_compare" /\ req'[p] # req[p]
            /\ bcryptCompare(req[p].password, req[p].user.password))
           => /\ req'[p].pc = "login_session"
              /\ getUserByUsername(users', req[p].username).loginAttempts = 0
              /\ getUserByUsername(users', req[p].username).cooldownUntil = Null
        /\ (req'[p].op = "login" /\ req'[p].pc = "done" /\ req'[p].status = 200
              /\ req'[p] # req[p])
           => /\ req[p].pc = "login_session"
              /\ getUserByUsername(users', req[p].username).loginAttempts = 0
              /\ getUserByUsername(users', req[p].username).cooldownUntil = Null
              /\ streak'[req[p].username] = 0

C16_LockedToNormal == [][C16_StateStep]_vars

\* C16 (case): a user who was locked out logs in with the correct password
\* after the cooldown has run out.
C16_LoggedInAfterLockout ==
    \E p \in Procs :
        /\ Done(p, "login") /\ req[p].status = 200
        /\ req[p].user.loginAttempts > LockThreshold
        /\ req[p].user.cooldownUntil # Null /\ req[p].user.cooldownUntil[1] <= now
        /\ Stored(p).loginAttempts = 0 /\ Stored(p).cooldownUntil = Null

(***************************************************************************)
(* Claims about sessions                                                   *)
(***************************************************************************)
\* C17: GET /api/me answers 401 when no session id is sent or the id names
\* no stored session, 404 when the session's user is no longer stored, and
\* otherwise 200 with the user that owns the session; it changes no user,
\* no session and no product.
C17_MeStep ==
    \A p \in Procs :
        /\ Starts(p, "me") =>
             IF req'[p].sent = Null \/ req'[p].sent[1] \notin DOMAIN sessions
             THEN req'[p].pc = "done" /\ req'[p].status = 401
             ELSE req'[p].pc = "me_user" /\ req'[p].session = sessions[req'[p].sent[1]]
        /\ (req[p].pc = "me_user" /\ req'[p] # req[p]) =>
             LET owners == {i \in 1..Len(users) : users[i].id = req[p].session.userId}
             IN /\ req'[p].pc = "done"
                /\ IF owners = {} THEN req'[p].status = 404
                   ELSE /\ req'[p].status = 200
                        /\ req'[p].body.user.id = req[p].session.userId
                        /\ \E i \in owners :
                             /\ DOMAIN req'[p].body.user = DOMAIN users[i] \ {"password"}
                             /\ \A f \in DOMAIN req'[p].body.user :
                                  req'[p].body.user[f] = users[i][f]
        /\ (req'[p].op = "me" /\ req'[p] # req[p]) =>
             /\ users' = users /\ sessions' = sessions
             /\ products' = products /\ sessionSeq' = sessionSeq

C17_CurrentUser == [][C17_MeStep]_vars

\* C17 (case): a current-user request for a stored session whose user has
\* been removed.
C17_SessionOfRemovedUser ==
    \E p \in Procs :
        /\ Done(p, "me") /\ req[p].status = 404
        /\ req[p].sent[1] \in DOMAIN sessions
        /\ getUser(users, sessions[req[p].sent[1]].userId) = NoUser

\* C18: a session comes into the store only with the 200 answer of a login
\* whose password matched, bound to that login's user and named by its
\* cookie; a login answered otherwise creates no session and sets no
\* cookie; a stored session never changes its user; and a session that has
\* been logged out is not stored again, so every later current-user request
\* for it is answered 401.
C18_SessionStep ==
    /\ \A sid \in DOMAIN sessions' \ DOMAIN sessions :
         \E p \in Procs :
            /\ req[p].pc = "login_session"
            /\ req'[p].pc = "done" /\ req'[p].status = 200
            /\ req'[p].cookie = <<sid>>
            /\ req[p].user.username = req[p].username
            /\ bcryptCompare(req[p].password, req[p].user.password)
            /\ sessions'[sid].userId = req[p].user.id
    /\ \A sid \in DOMAIN sessions \cap DOMAIN sessions' : sessions'[sid] = sessions[sid]
    /\ \A sid \in 1..sessionSeq : sid \notin DOMAIN sessions => sid \notin DOMAIN sessions'
    /\ \A p \in Procs :
         /\ (req'[p].op = "login" /\ req'[p].pc = "done" /\ req'[p] # req[p]
               /\ req'[p].status # 200)
              => (sessions' = sessions /\ req'[p].cookie = Null
                    /\ req'[p].status \in {400, 401, 429})
         /\ (Starts(p, "logout") /\ req'[p].sent # Null)
              => req'[p].sent[1] \notin DOMAIN sessions'
         /\ (Starts(p, "me") /\ req'[p].sent # Null
               /\ req'[p].sent[1] \notin DOMAIN sessions)
              => (req'[p].pc = "done" /\ req'[p].status = 401)

C18_SessionLifecycle == [][C18_SessionStep]_vars

\* C18 (case): a current-user request for a session that a login created and
\* a logout has deleted, answered 401.
C18_MeAfterLogout ==
    \E p \in Procs :
        /\ Done(p, "me") /\ req[p].status = 401
        /\ req[p].sent # Null
        /\ req[p].sent[1] <= sessionSeq
        /\ req[p].sent[1] \notin DOMAIN sessions

(***************************************************************************)
(* Claims about who may change the stock, and about failures of the store  *)
(***************************************************************************)
\* The cookie names a stored session whose user has the role staff.
ValidStaffSession(cookie) ==
    /\ cookie # Null
    /\ getSession(sessions, cookie[1]) # NoSession
    /\ getUser(users, getSession(sessions, cookie[1]).userId) # NoUser
    /\ getUser(users, getSession(sessions, cookie[1]).userId).role = "staff"

\* C19: POST /api/sales and POST /api/products/:id/deduct change the stock
\* only for a request carrying a valid session of a staff user: while no
\* cookie a client can send names such a session, every such request (of
\* positive quantities) is rejected and leaves every product unchanged.
C19_StockNeedsStaffSession ==
    \A p \in Procs :
        (/\ req[p].op \in {"deduct", "sale"} /\ PositiveQuantities(p)
         /\ ~ \E c \in Cookies : ValidStaffSession(c)) =>
            /\ products = req[p].pre
            /\ req[p].pc = "done" => req[p].status # 200

\* C19 (case): a deduction answered 200 while no session is stored at all.
C19_DeductedWithoutSession ==
    \E p \in Procs :
        /\ Done(p, "deduct") /\ req[p].status = 200
        /\ req[p].quantity > 0
        /\ DOMAIN sessions = {}
        /\ products # req[p].pre

\* C20: a storage call that throws, in whichever operation, is answered
\* with a 500: never with a 400, and never with no answer at all.
C20_StorageFailureIs500 ==
    \A p \in Procs :
        "threw" \in DOMAIN req[p] => (req[p].pc = "done" /\ req[p].status = 500)

\* C20 (case): a login whose storage call threw after the password had been
\* compared, answered 400.
C20_LoginFailureAnswered400 ==
    \E p \in Procs :
        /\ Done(p, "login") /\ "threw" \in DOMAIN req[p]
        /\ req[p].user # NoUser
        /\ req[p].status = 400

(***************************************************************************)
(* Claims about the failure counter                                        *)
(***************************************************************************)
\* C22: for wrong-password logins handled one after another from a user
\* with loginAttempts 0 and no cooldown: each one raises loginAttempts by
\* exactly 1; the first two are answered 401 and set no cooldown; the third
\* is answered 429 and sets cooldownUntil to the time of the attempt plus 5
\* minutes. Until the third failure no cooldown is stored.
C22_CountStep ==
    \A p \in Procs :
        /\ (/\ req[p].pc = "login_compare" /\ req'[p] # req[p]
            /\ ~bcryptCompare(req[p].password, req[p].user.password))
           => /\ req'[p].pc = "login_failed"
              /\ getUserByUsername(users', req[p].username).loginAttempts =
                   Stored(p).loginAttempts + 1
              /\ getUserByUsername(users', req[p].username).cooldownUntil =
                   Stored(p).cooldownUntil
        /\ (req[p].pc = "login_failed" /\ req'[p] # req[p]) =>
             IF req[p].user.loginAttempts < 2
             THEN /\ req'[p].pc = "done" /\ req'[p].status = 401
                  /\ users' = users
                  /\ Stored(p).cooldownUntil = Null
             ELSE /\ req'[p].pc = "done" /\ req'[p].status = 429
                  /\ getUserByUsername(users', req[p].username).cooldownUntil =
                       <<now + 300000>>
                  /\ getUserByUsername(users', req[p].username).loginAttempts =
                       Stored(p).loginAttempts
        /\ \A i \in 1..Len(users) :
             users[i].loginAttempts <= 2 => users[i].cooldownUntil = Null

C22_ThirdFailureLocks == [][C22_CountStep]_vars

\* C22 (case): the third wrong password in a row, from a fresh user,
\* answered 429 with the cooldown stored.
C22_ThirdWrongPassword ==
    \E p \in Procs :
        /\ Done(p, "login") /\ req[p].status = 429
        /\ req[p].user.loginAttempts = 2 /\ req[p].user.cooldownUntil = Null
        /\ streak[req[p].username] = 3
        /\ Stored(p).loginAttempts = 3
        /\ Stored(p).cooldownUntil = <<req[p].body.cooldownUntil>>

\* C23: however concurrent wrong-password logins of one user interleave,
\* at most 3 password comparisons fail for that user before a lockout: as
\* long as no lockout has been set since the last successful login, the
\* user's counted failed comparisons do not exceed 3.
C23_ComparisonsBounded ==
    \A u \in Usernames :
        (getUserByUsername(users, u) # NoUser /\ lockMs[u] = <<>>) =>
            getUserByUsername(users, u).loginAttempts <= 3

\* C23 (case): two wrong-password logins of one user that have both read
\* loginAttempts = 2 and both passed the cooldown check.
C23_TwoStaleReads ==
    \E p \in Procs : \E q \in Procs \ {p} :
        /\ req[p].pc = "login_compare" /\ req[q].pc = "login_compare"
        /\ req[p].username = req[q].username
        /\ req[p].user.loginAttempts = 2 /\ req[q].user.loginAttempts = 2
        /\ ~bcryptCompare(req[p].password, req[p].user.password)
        /\ ~bcryptCompare(req[q].password, req[q].user.password)

\* C24: a login rejected because the user's cooldown is active, and a login
\* for an unknown username, are answered in their first step (no password
\* comparison) and change no user, no session and no product.
C24_RejectStep ==
    \A p \in Procs :
        (/\ Starts(p, "login")
         /\ loginSchemaOk(req'[p].username, req'[p].password)
         /\ \/ getUserByUsername(users, req'[p].username) = NoUser
            \/ /\ getUserByUsername(users, req'[p].username).cooldownUntil # Null
               /\ getUserByUsername(users, req'[p].username).cooldownUntil[1] > now)
        => /\ req'[p].pc = "done"
           /\ req'[p].status =
                (IF getUserByUsername(users, req'[p].username) = NoUser THEN 401 ELSE 429)
           /\ req'[p].cookie = Null
           /\ users' = users /\ sessions' = sessions
           /\ sessionSeq' = sessionSeq /\ products' = products

C24_RejectedLoginChangesNothing == [][C24_RejectStep]_vars

\* C24 (case): a login with the correct password rejected by the cooldown.
C24_CorrectPasswordRejected ==
    \E p \in Procs :
        /\ Done(p, "login") /\ req[p].status = 429
        /\ bcryptCompare(req[p].password, req[p].user.password)
        /\ CooldownActive(Stored(p), now)
        /\ Stored(p) = req[p].user

\* C25: the passing of time changes no user, loginAttempts goes down only
\* by the reset of a login whose password matched, and a wrong password for
\* a user whose earlier cooldown has run out is answered 429 and sets a new
\* cooldown of 5 minutes from that attempt.
C25_ExpiryStep ==
    /\ now' # now => users' = users
    /\ \A u \in Usernames :
         getUserByUsername(users', u).id = getUserByUsername(users, u).id =>
           (\/ getUserByUsername(users, u) = NoUser
            \/ getUserByUsername(users', u).loginAttempts >=
                 getUserByUsername(users, u).loginAttempts
            \/ \E p \in Procs :
                 /\ req[p].pc = "login_compare" /\ req'[p].pc = "login_session"
                 /\ req[p].username = u
                 /\ bcryptCompare(req[p].password, req[p].user.password))
    /\ \A p \in Procs :
         (/\ req[p].pc = "login_failed" /\ req'[p] # req[p]
          /\ req[p].user.cooldownUntil # Null)
         => /\ req[p].user.cooldownUntil[1] <= now
            /\ req[p].user.loginAttempts > LockThreshold
            /\ req'[p].pc = "done" /\ req'[p].status = 429
            /\ getUserByUsername(users', req[p].username).cooldownUntil =
                 <<now + CooldownMs>>

C25_AttemptsSurviveExpiry == [][C25_ExpiryStep]_vars

\* C25 (case): the first wrong password after the cooldown has run out,
\* answered 429 with a later cooldown than the one that ran out.
C25_LockedAgainAfterExpiry ==
    \E p \in Procs :
        /\ Done(p, "login") /\ req[p].status = 429
        /\ req[p].user.cooldownUntil # Null
        /\ req[p].user.loginAttempts = LockThreshold + 1
        /\ "cooldownUntil" \in DOMAIN req[p].body
        /\ req[p].body.cooldownUntil > req[p].user.cooldownUntil[1]

\* C26: a successful login adds one session and leaves every earlier
\* session stored as it was; a logout removes the session its cookie names
\* and no other, and changes no user and no product.
C26_IndependentStep ==
    \A p \in Procs :
        /\ (req[p].pc = "login_session" /\ req'[p] # req[p]) =>
             /\ \A k \in DOMAIN sessions :
                  k \in DOMAIN sessions' /\ sessions'[k] = sessions[k]
             /\ Cardinality(DOMAIN sessions') = Cardinality(DOMAIN sessions) + 1
             /\ products' = products
        /\ Starts(p, "logout") =>
             /\ DOMAIN sessions' =
                  DOMAIN sessions \ (IF req'[p].sent = Null THEN {} ELSE {req'[p].sent[1]})
             /\ \A k \in DOMAIN sessions' : sessions'[k] = sessions[k]
             /\ users' = users /\ products' = products

C26_SessionsIndependent == [][C26_IndependentStep]_vars

\* C26 (case): a user with two sessions has logged one of them out and the
\* other one is still stored.
C26_OtherSessionKept ==
    \E p \in Procs :
        /\ Done(p, "logout") /\ req[p].sent # Null
        /\ req[p].sent[1] <= sessionSeq
        /\ req[p].sent[1] \notin DOMAIN sessions
        /\ \E k \in DOMAIN sessions : sessions[k].userId = <<"uid", 1>>
        /\ sessionSeq >= 2

(***************************************************************************)
(* Claims about what the responses show                                    *)
(***************************************************************************)
\* The user document a finished request of slot p got from the store.
UserRead(p) ==
    IF req[p].op = "login" THEN req[p].user
    ELSE IF req[p].op = "me" THEN getUser(users, req[p].session.userId)
    ELSE Stored(p)

C21_ReportStep ==
    \A p \in Procs :
        (Free(p) /\ req'[p].op = "report") =>
            /\ req'[p].pc = "done" /\ req'[p].status = 200
            /\ req'[p].body =
                 getSalesReport(IF req'[p].period = "weekly" THEN "weekly" ELSE "daily")
            /\ req'[p].body.window \in {"daily", "weekly"}
            /\ users' = users /\ sessions' = sessions /\ products' = products

C21_ReportReadOnly == [][C21_ReportStep]_vars

\* C21 (case): a report for an unknown period, asked for after stock has
\* been sold, answered with the daily report.
C21_UnknownPeriodDaily ==
    \E p \in Procs :
        /\ Done(p, "report") /\ req[p].period = "monthly"
        /\ req[p].body.window = "daily"
        /\ products # InitProducts

(***************************************************************************)
(* Claims about product creation                                           *)
(***************************************************************************)
\* C27: a creation with an id already used as a manual id is answered 409
\* and creates nothing, and no two products of the store ever share a
\* manual id, two racing creations with the same id included.
C27_ManualIdsUnique ==
    /\ \A p \in Procs :
         (Done(p, "product") /\ getProductByManualId(req[p].pre, req[p].id) # NoProduct)
           => req[p].status = 409
    /\ \A o \in DOMAIN products : \A n \in DOMAIN products \ {o} :
         products[o].manualId # products[n].manualId

\* C27 (case): two creations with the same id that have both found the id
\* unused.
C27_TwoCreationsPending ==
    \E p \in Procs : \E q \in Procs \ {p} :
        /\ req[p].pc = "product_create" /\ req[q].pc = "product_create"
        /\ req[p].id = req[q].id

(***************************************************************************)
(* Claims about the start of the server                                    *)
(***************************************************************************)
\* C28: however the calls interleave, mongoose.connect is started at most
\* once unless an earlier attempt failed (one more start per failure), the
\* flag isConnected is set only when an attempt has succeeded, and no
\* request is dispatched before the connection has succeeded and the
\* frontend setup has completed.
C28_ConnectOnce ==
    /\ connects <= failures + 1
    /\ isConnected => connects > failures
    /\ \A p \in Procs :
         (req[p].op = "invoke" /\ req[p].dispatched) => (isConnected /\ frontendReady)

\* C28 (case): two calls that have both found isConnected false and are
\* both waiting for their own mongoose.connect, none having failed.
C28_TwoConnecting ==
    \E p \in Procs : \E q \in Procs \ {p} :
        /\ req[p].pc = "connecting" /\ req[q].pc = "connecting"
        /\ failures = 0 /\ ~isConnected

(***************************************************************************)
(* Claims about the transaction page                                       *)
(***************************************************************************)
\* C29: a payment whose cash given is no number or is below the total sends
\* no deduct request and is not marked paid; a payment is marked paid (with
\* "Payment Successful") only if the server has accepted the deduction of
\* every cart line.
C29_PaidOnlyIfDeducted ==
    \A p \in Procs :
        req[p].op = "pay" =>
            /\ invalidAmount(req[p].cashGiven, cartTotal(req[p].cart, Len(req[p].cart)))
                 => (req[p].statuses = <<>> /\ ~req[p].isPaid)
            /\ (req[p].isPaid \/ req[p].toast = "Payment Successful") =>
                 /\ Len(req[p].statuses) = Len(req[p].cart)
                 /\ \A i \in 1..Len(req[p].statuses) : req[p].statuses[i] = 200

\* C29 (case): a payment marked paid although the server answered a deduct
\* request with 400 or 404.
C29_PaidAfterRejection ==
    \E p \in Procs :
        /\ req[p].op = "pay" /\ req[p].pc = "done" /\ req[p].isPaid
        /\ \E i \in 1..Len(req[p].statuses) : req[p].statuses[i] \in {400, 404}

=============================================================================
